---------------------------- MODULE Spec2Model ----------------------------
(***************************************************************************)
(* x402-smart-layer: the request-validation gate (src/src/middleware.ts)   *)
(* and its rule deriver and oracle client (src/src/service.ts).            *)
(*                                                                         *)
(* JavaScript strings that the code inspects (descriptors, rules, paths)   *)
(* are sequences of one-character strings, so that length, slicing,        *)
(* splitting and the regular-expression test are computed as the code      *)
(* computes them.  Strings the code only passes along are TLA+ strings.    *)
(***************************************************************************)
EXTENDS Integers, Sequences, FiniteSets, TLC

VARIABLES
    dIn,      \* rule deriver: the expectedRequest map handed to it
    dOut,     \* rule deriver: the rules object it returned
    dDone,    \* rule deriver: whether generateRulesFromExpectedRequest has run
    pReq,     \* route resolution: the request whose route is resolved
    pRoute,   \* route resolution: routePath after lines 28-37
    pFound,   \* route resolution: whether endpoints[routePath] is an EndpointConfig
    pDone,    \* route resolution: whether lines 28-38 have run
    config,   \* gate: the SmartLayerConfig createSmartLayer was called with
    req,      \* gate: per request, the req object the host passed
    pc,       \* gate: per request, where its handler is: "idle", "awaiting", "done"
    net,      \* gate: per request, its fetch: "none", "inflight", "lost", "settled"
    calls,    \* gate: per request, the bodies POSTed to the oracle, in order
    reply,    \* gate: per request, what its fetch settled with
    nexts,    \* gate: per request, what each call of next() found on the req object
    sent,     \* gate: per request, the responses written with res.status().json()
    log       \* gate: per request, the console output of its handler

deriverVars == <<dIn, dOut, dDone>>
pathVars == <<pReq, pRoute, pFound, pDone>>
gateVars == <<config, req, pc, net, calls, reply, nexts, sent, log>>
vars == <<deriverVars, pathVars, gateVars>>

(***************************************************************************)
(* Bounds of the model.                                                    *)
(***************************************************************************)
MaxPad == 18      \* padding characters added around a descriptor's core
MaxNum == 12      \* numeric descriptors range over -MaxNum..MaxNum
MaxArr == 2       \* array descriptors have 0..MaxArr elements
MaxPathLen == 3   \* paths and URLs of route resolution have 0..MaxPathLen characters

(***************************************************************************)
(* JavaScript values.  Every value is a record of the same shape:         *)
(*   t      the kind: "undefined", "null", "string", "number", "boolean", *)
(*          "array", "object", "function", "bigint"                       *)
(*   s      the characters of a string                                    *)
(*   n      the value of a number                                         *)
(*   b      the value of a boolean                                        *)
(*   items  the elements of an array / the own keys of an object          *)
(***************************************************************************)
JsUndefined == [t |-> "undefined", s |-> <<>>, n |-> 0, b |-> FALSE, items |-> <<>>]
JsNull == [t |-> "null", s |-> <<>>, n |-> 0, b |-> FALSE, items |-> <<>>]
JsString(str) == [t |-> "string", s |-> str, n |-> 0, b |-> FALSE, items |-> <<>>]
JsNumber(num) == [t |-> "number", s |-> <<>>, n |-> num, b |-> FALSE, items |-> <<>>]
JsBoolean(bool) == [t |-> "boolean", s |-> <<>>, n |-> 0, b |-> bool, items |-> <<>>]
JsArray(elems) == [t |-> "array", s |-> <<>>, n |-> 0, b |-> FALSE, items |-> elems]
JsObject(keys) == [t |-> "object", s |-> <<>>, n |-> 0, b |-> FALSE, items |-> keys]
JsFunction == [t |-> "function", s |-> <<>>, n |-> 0, b |-> FALSE, items |-> <<>>]
JsBigInt(num) == [t |-> "bigint", s |-> <<>>, n |-> num, b |-> FALSE, items |-> <<>>]

\* typeof value
TypeOf(value) ==
    CASE value.t \in {"null", "array", "object"} -> "object"
      [] OTHER -> value.t

\* Array.isArray(value)
IsArray(value) == value.t = "array"

\* JSON.stringify(map, null, 2) throws a TypeError: a BigInt among the values
\* cannot be serialized (a function is left out, undefined too).
StringifyThrows(map) == \E field \in DOMAIN map : map[field].t = "bigint"

(***************************************************************************)
(* Characters.                                                             *)
(***************************************************************************)
LowerCase == <<"a", "b", "c", "d", "e", "f", "g", "h", "i", "j", "k", "l", "m",
               "n", "o", "p", "q", "r", "s", "t", "u", "v", "w", "x", "y", "z">>
UpperCase == <<"A", "B", "C", "D", "E", "F", "G", "H", "I", "J", "K", "L", "M",
               "N", "O", "P", "Q", "R", "S", "T", "U", "V", "W", "X", "Y", "Z">>

\* The canonical form the /i flag compares characters in.
Fold(c) ==
    IF \E i \in 1..Len(UpperCase) : UpperCase[i] = c
    THEN LowerCase[CHOOSE i \in 1..Len(UpperCase) : UpperCase[i] = c]
    ELSE c

\* The regular expression class \s, on the characters of the model.
IsWhitespace(c) == c \in {" ", "\t", "\n", "\r", "\f"}

\* The literal lit matches in str at position i, ignoring case.
MatchesAt(str, i, lit) ==
    /\ i + Len(lit) - 1 <= Len(str)
    /\ \A k \in 1..Len(lit) : Fold(str[i + k - 1]) = lit[k]

\* be\s+(a|an) matches in str at position i, ignoring case: "be", one or
\* more whitespace characters, then "a" (the alternative "an" starts with it).
MatchesBeAt(str, i) ==
    /\ MatchesAt(str, i, <<"b", "e">>)
    /\ \E j \in (i + 3)..Len(str) :
           /\ \A k \in (i + 2)..(j - 1) : IsWhitespace(str[k])
           /\ Fold(str[j]) = "a"

\* /must|should|required|valid|match|be\s+(a|an)/i.test(str)
DescriptionPattern(str) ==
    \E i \in 1..Len(str) :
        \/ MatchesAt(str, i, <<"m", "u", "s", "t">>)
        \/ MatchesAt(str, i, <<"s", "h", "o", "u", "l", "d">>)
        \/ MatchesAt(str, i, <<"r", "e", "q", "u", "i", "r", "e", "d">>)
        \/ MatchesAt(str, i, <<"v", "a", "l", "i", "d">>)
        \/ MatchesAt(str, i, <<"m", "a", "t", "c", "h">>)
        \/ MatchesBeAt(str, i)

(***************************************************************************)
(* Template literals: ${value} of a number and of a boolean.               *)
(***************************************************************************)
Digits == <<"0", "1", "2", "3", "4", "5", "6", "7", "8", "9">>

RECURSIVE NatToString(_)
NatToString(num) ==
    IF num < 10 THEN <<Digits[num + 1]>>
    ELSE NatToString(num \div 10) \o <<Digits[(num % 10) + 1]>>

NumberToString(num) ==
    IF num < 0 THEN <<"-">> \o NatToString(0 - num) ELSE NatToString(num)

BooleanToString(bool) ==
    IF bool THEN <<"t", "r", "u", "e">> ELSE <<"f", "a", "l", "s", "e">>

(***************************************************************************)
(* service.ts: generateRulesFromExpectedRequest                            *)
(***************************************************************************)
MaxBareLength == 20

LitOptional == <<"f", "i", "e", "l", "d", " ", "i", "s", " ", "o", "p", "t", "i", "o", "n", "a", "l">>
LitNonEmptyString == <<"m", "u", "s", "t", " ", "b", "e", " ", "a", " ", "n", "o", "n", "-", "e", "m", "p", "t", "y", " ", "s", "t", "r", "i", "n", "g">>
LitExampleOpen == <<" ", "(", "e", "x", "a", "m", "p", "l", "e", ":", " ">>
LitExampleClose == <<")">>
LitNumber == <<"m", "u", "s", "t", " ", "b", "e", " ", "a", " ", "n", "u", "m", "b", "e", "r">>
LitBoolean == <<"m", "u", "s", "t", " ", "b", "e", " ", "a", " ", "b", "o", "o", "l", "e", "a", "n">>
LitArray == <<"m", "u", "s", "t", " ", "b", "e", " ", "a", "n", " ", "a", "r", "r", "a", "y">>
LitWith == <<" ", "w", "i", "t", "h", " ">>
LitElements == <<" ", "e", "l", "e", "m", "e", "n", "t", "(", "s", ")">>
LitObject == <<"m", "u", "s", "t", " ", "b", "e", " ", "a", "n", " ", "o", "b", "j", "e", "c", "t", " ", "m", "a", "t", "c", "h", "i", "n", "g", " ", "t", "h", "e", " ", "e", "x", "p", "e", "c", "t", "e", "d", " ", "s", "t", "r", "u", "c", "t", "u", "r", "e">>
LitOther == <<"m", "u", "s", "t", " ", "m", "a", "t", "c", "h", " ", "t", "h", "e", " ", "e", "x", "p", "e", "c", "t", "e", "d", " ", "t", "y", "p", "e", " ", "a", "n", "d", " ", "s", "t", "r", "u", "c", "t", "u", "r", "e">>

\* The test of line 34-35: the string is used as the rule as it stands.
LooksLikeDescriptionOffByOne(str) ==
    Len(str) >= MaxBareLength \/ DescriptionPattern(str)

LooksLikeDescription(str) ==
    Len(str) > MaxBareLength \/ DescriptionPattern(str)

\* The template " (example: ${value})" with the text the template substitutes.
ExampleSuffix(text) == LitExampleOpen \o text \o LitExampleClose

\* The rule of a short string, line 39: the example is left out when the
\* string is empty (an empty string is falsy).
StringExampleRuleAlways(str) == LitNonEmptyString \o ExampleSuffix(str)

StringExampleRule(str) ==
    LitNonEmptyString \o (IF str /= <<>> THEN ExampleSuffix(str) ELSE <<>>)

\* One iteration of the loop of lines 21-52: the rule of one field.
RuleForObjectFirst(value) ==
    IF value.t \in {"null", "undefined"} THEN LitOptional
    ELSE IF TypeOf(value) = "string" THEN
        IF LooksLikeDescription(value.s) THEN value.s
        ELSE StringExampleRule(value.s)
    ELSE IF TypeOf(value) = "number" THEN
        LitNumber \o ExampleSuffix(NumberToString(value.n))
    ELSE IF TypeOf(value) = "boolean" THEN
        LitBoolean \o ExampleSuffix(BooleanToString(value.b))
    ELSE IF TypeOf(value) = "object" THEN LitObject
    ELSE IF IsArray(value) THEN
        LitArray \o (IF Len(value.items) > 0
                     THEN LitWith \o NatToString(Len(value.items)) \o LitElements
                     ELSE <<>>)
    ELSE LitOther

RuleFor(value) ==
    IF value.t \in {"null", "undefined"} THEN LitOptional
    ELSE IF TypeOf(value) = "string" THEN
        IF LooksLikeDescription(value.s) THEN value.s
        ELSE StringExampleRule(value.s)
    ELSE IF TypeOf(value) = "number" THEN
        LitNumber \o ExampleSuffix(NumberToString(value.n))
    ELSE IF TypeOf(value) = "boolean" THEN
        LitBoolean \o ExampleSuffix(BooleanToString(value.b))
    ELSE IF IsArray(value) THEN
        LitArray \o (IF Len(value.items) > 0
                     THEN LitWith \o NatToString(Len(value.items)) \o LitElements
                     ELSE <<>>)
    ELSE IF TypeOf(value) = "object" THEN LitObject
    ELSE LitOther

\* generateRulesFromExpectedRequest: one rule per own key of expectedRequest.
generateRulesSkippingOptional(expectedRequest) ==
    [field \in {f \in DOMAIN expectedRequest : expectedRequest[f].t \notin {"null", "undefined"}}
        |-> RuleFor(expectedRequest[field])]

generateRulesFromExpectedRequest(expectedRequest) ==
    [field \in DOMAIN expectedRequest |-> RuleFor(expectedRequest[field])]


(***************************************************************************)
(* middleware.ts: route resolution, lines 28-38                            *)
(***************************************************************************)
\* A property of the request that holds a string or is undefined.
Absent == [has |-> FALSE, s |-> <<>>]
Present(str) == [has |-> TRUE, s |-> str]

\* !x of such a property: undefined and the empty string are falsy.
Falsy(x) == ~x.has \/ x.s = <<>>

\* a || b
OrElse(x, y) == IF Falsy(x) THEN y ELSE x

\* str.split('?')[0]: the characters before the first "?".
RECURSIVE BeforeQuery(_)
BeforeQuery(str) ==
    IF str = <<>> \/ Head(str) = "?" THEN <<>>
    ELSE <<Head(str)>> \o BeforeQuery(Tail(str))

\* str.endsWith('/')
EndsWithSlash(str) == Len(str) > 0 /\ str[Len(str)] = "/"

\* Lines 35-37 with the guard length > 0: the root path is trimmed too.
TrimTrailingSlashAlsoRoot(str) ==
    IF Len(str) > 0 /\ EndsWithSlash(str) THEN SubSeq(str, 1, Len(str) - 1) ELSE str

\* Lines 35-37: remove one trailing slash, except from the root path.
TrimTrailingSlash(str) ==
    IF Len(str) > 1 /\ EndsWithSlash(str) THEN SubSeq(str, 1, Len(str) - 1) ELSE str

\* Lines 28-37: routePath of a request.
ResolveRoutePath(request) ==
    LET routePath ==
            IF Falsy(request.path) \/ request.path.s = <<"/">>
            THEN LET url == OrElse(OrElse(request.url, request.originalUrl), Present(<<>>))
                 IN  BeforeQuery(url.s)
            ELSE request.path.s
    IN  TrimTrailingSlash(routePath)

\* An EndpointConfig; one written without expectedRequest has none to read.
Endpoint(expectedRequest) == [hasExpected |-> TRUE, expectedRequest |-> expectedRequest]
MalformedEndpoint == [hasExpected |-> FALSE, expectedRequest |-> [none |-> JsUndefined]]

\* endpoints[routePath] of an object without that key: undefined.
NoEndpoint == [found |-> FALSE, config |-> MalformedEndpoint]

\* The lookup falling back to the root route's EndpointConfig.
LookupWithRootDefault(endpoints, routePath) ==
    IF routePath \in DOMAIN endpoints THEN [found |-> TRUE, config |-> endpoints[routePath]]
    ELSE IF <<"/">> \in DOMAIN endpoints THEN [found |-> TRUE, config |-> endpoints[<<"/">>]]
    ELSE NoEndpoint

\* Line 38: endpointConfig = endpoints[routePath]; found is the test of line 49.
\* The lookup answering a configured route with the EndpointConfig of
\* another route, where there is another that holds an expectedRequest.
LookupOtherRoute(endpoints, routePath) ==
    IF routePath \in DOMAIN endpoints
    THEN LET others == {k \in DOMAIN endpoints : k /= routePath /\ endpoints[k].hasExpected}
         IN  [found |-> TRUE,
              config |-> IF others = {} THEN endpoints[routePath]
                         ELSE endpoints[CHOOSE k \in others : TRUE]]
    ELSE NoEndpoint

Lookup(endpoints, routePath) ==
    IF routePath \in DOMAIN endpoints THEN [found |-> TRUE, config |-> endpoints[routePath]]
    ELSE NoEndpoint

(***************************************************************************)
(* The validation oracle as the gate sees it: what fetch settles with.     *)
(*   kind     "rejected": the fetch promise rejects (network error);       *)
(*            "response": it resolves with an HTTP response                *)
(*   status   the HTTP status                                              *)
(*   json     how the body parses: "object", "null", "scalar" (a JSON      *)
(*            number or string), "invalid" (not JSON)                      *)
(*   text     the body text, where it is not JSON or is the JSON null      *)
(*   error, message   the fields of a JSON error body ("" when missing)    *)
(*   verdict  the fields of a JSON ValidationResult body                   *)
(*   failure  the message of the error a rejected promise carries          *)
(***************************************************************************)
\* A ValidationResult as parsed from JSON.  valid is "true", "false",
\* "missing" (no such field) or "truthy" (a non-boolean, non-empty value);
\* has lists the fields the JSON object holds.
NoVerdict ==
    [has |-> {}, valid |-> "missing", errors |-> <<>>, warnings |-> <<>>,
     summary |-> "", validatedAt |-> ""]

Verdict(valid, errors, warnings, summary) ==
    [has |-> {"success", "valid", "errors", "warnings", "summary", "validatedAt"},
     valid |-> valid, errors |-> errors, warnings |-> warnings,
     summary |-> summary, validatedAt |-> "2026-01-01T00:00:00.000Z"]

Rejected(failure) ==
    [kind |-> "rejected", status |-> 0, json |-> "invalid", text |-> "",
     error |-> "", message |-> "", verdict |-> NoVerdict, failure |-> failure]

ErrorResponse(status, json, text, error, message) ==
    [kind |-> "response", status |-> status, json |-> json, text |-> text,
     error |-> error, message |-> message, verdict |-> NoVerdict, failure |-> ""]

VerdictResponse(status, verdict) ==
    [kind |-> "response", status |-> status, json |-> "object", text |-> "",
     error |-> "", message |-> "", verdict |-> verdict, failure |-> ""]

NoReply == Rejected("")

\* response.ok
Ok(response) == response.status >= 200 /\ response.status <= 299

\* ${response.status} in a TLA+ string.
DigitNames == <<"0", "1", "2", "3", "4", "5", "6", "7", "8", "9">>

RECURSIVE StatusText(_)
StatusText(num) ==
    IF num < 10 THEN DigitNames[num + 1]
    ELSE StatusText(num \div 10) \o DigitNames[(num % 10) + 1]

\* a || b on message strings: the empty string is falsy.
OrText(x, y) == IF x = "" THEN y ELSE x

(***************************************************************************)
(* service.ts: validatePayload, lines 78-110, from the point fetch settles.*)
(* The outcome is a thrown error (threw, with its message) or the value    *)
(* returned: result is "object" or "scalar" with the fields in verdict, or *)
(* "null".                                                                 *)
(***************************************************************************)
Throws(message) == [threw |-> TRUE, message |-> message, result |-> "none", verdict |-> NoVerdict]
Returns(result, verdict) == [threw |-> FALSE, message |-> "", result |-> result, verdict |-> verdict]

\* Lines 90-103 reading the field message before the field error.
ErrorMessageOfMessageFirst(response) ==
    LET errorMessage == "Validation request failed with status " \o StatusText(response.status)
    IN  CASE response.json = "object" ->
                 OrText(response.message, OrText(response.error, errorMessage))
          [] response.json = "scalar" -> errorMessage
          [] response.json = "null" -> OrText(response.text, errorMessage)
          [] OTHER -> OrText(response.text, errorMessage)

\* Lines 90-103: the message of the error thrown for a response that is not ok.
ErrorMessageOf(response) ==
    LET errorMessage == "Validation request failed with status " \o StatusText(response.status)
    IN  CASE response.json = "object" ->
                 OrText(response.error, OrText(response.message, errorMessage))
          [] response.json = "scalar" -> errorMessage
          \* JSON.parse returns null, reading errorJson.error throws inside
          \* the try, and the catch falls back to the text.
          [] response.json = "null" -> OrText(response.text, errorMessage)
          [] OTHER -> OrText(response.text, errorMessage)

validatePayload(settled) ==
    IF settled.kind = "rejected" THEN Throws(settled.failure)
    ELSE IF ~Ok(settled) THEN Throws(ErrorMessageOf(settled))
    ELSE CASE settled.json = "invalid" -> Throws("Unexpected token in JSON")
           [] settled.json = "null" -> Returns("null", NoVerdict)
           [] OTHER -> Returns(settled.json, settled.verdict)

(***************************************************************************)
(* middleware.ts: createSmartLayer                                         *)
(***************************************************************************)
Requests == {"r1", "r2"}


\* res.status(400).json({...}) of lines 104-112.
RejectionOf(validationResult) ==
    [status |-> 400,
     keys |-> {"success", "error", "validation"},
     success |-> FALSE,
     error |-> "Request validation failed",
     message |-> "",
     validation |-> [has |-> validationResult.has \cap {"errors", "warnings", "summary"},
                     errors |-> validationResult.errors,
                     warnings |-> validationResult.warnings,
                     summary |-> validationResult.summary]]

\* res.status(500).json({...}) of lines 130-134.
FailureOf(message) ==
    [status |-> 500,
     keys |-> {"success", "error", "message"},
     success |-> FALSE,
     error |-> "Validation service error",
     message |-> OrText(message, "Internal validation error"),
     validation |-> [has |-> {}, errors |-> <<>>, warnings |-> <<>>, summary |-> ""]]

\* hasPayload without the test for arrays.
HasPayloadArraysToo(payload) ==
    /\ payload.t /= "undefined"
    /\ payload.t /= "null"
    /\ TypeOf(payload) = "object"
    /\ Len(payload.items) > 0

\* Lines 61-65: hasPayload.
HasPayload(payload) ==
    /\ payload.t /= "undefined"
    /\ payload.t /= "null"
    /\ TypeOf(payload) = "object"
    /\ ~IsArray(payload)
    /\ Len(payload.items) > 0

\* The smartLayerValidation property of a req object.
NotAttached == [has |-> FALSE, v |-> NoVerdict]
Attached(validationResult) == [has |-> TRUE, v |-> validationResult]

\* console.log under debug, console.error always.
Debug(lines) == IF config.debug THEN lines ELSE <<>>

NoRequest ==
    [path |-> Absent, url |-> Absent, originalUrl |-> Absent, method |-> "GET",
     body |-> JsUndefined, headers |-> {}, smartLayerValidation |-> NotAttached]

\* The handler's outcomes, each with everything it does before it returns.
\* next() finds the req object as it is when next is called.
CallNext(r, request, lines) ==
    /\ req' = [req EXCEPT ![r] = request]
    /\ nexts' = [nexts EXCEPT ![r] = Append(@, request.smartLayerValidation)]
    /\ log' = [log EXCEPT ![r] = @ \o lines]
    /\ pc' = [pc EXCEPT ![r] = "done"]
    /\ UNCHANGED sent

Respond(r, request, response, lines) ==
    /\ req' = [req EXCEPT ![r] = request]
    /\ sent' = [sent EXCEPT ![r] = Append(@, response)]
    /\ log' = [log EXCEPT ![r] = @ \o lines]
    /\ pc' = [pc EXCEPT ![r] = "done"]
    /\ UNCHANGED nexts

\* The catch block, lines 122-135.
\* The same block throwing the error again after it has logged it: the
\* promise of the handler is rejected and nothing is written.
CatchRethrows(r, request, message, lines) ==
    /\ req' = [req EXCEPT ![r] = request]
    /\ log' = [log EXCEPT ![r] = @ \o lines \o <<"error: Validation error">>]
    /\ pc' = [pc EXCEPT ![r] = "crashed"]
    /\ UNCHANGED <<sent, nexts>>

Catch(r, request, message, lines) ==
    Respond(r, request, FailureOf(message),
            lines \o <<"error: Validation error">> \o Debug(<<"Error details">>))

\* validatePayload up to its await, service.ts:69-84: the body {rules, payload}
\* is POSTed once and the fetch is in flight.
PostToOracleTwice(r, rules, payload) ==
    /\ calls' = [calls EXCEPT ![r] = @ \o << [rules |-> rules, payload |-> payload],
                                              [rules |-> rules, payload |-> payload] >>]
    /\ net' = [net EXCEPT ![r] = "inflight"]

PostToOracle(r, rules, payload) ==
    /\ calls' = [calls EXCEPT ![r] = Append(@, [rules |-> rules, payload |-> payload])]
    /\ net' = [net EXCEPT ![r] = "inflight"]

\* The names part_001 looks up in req.headers, and its hasPaymentHeaders.
PaymentHeaderNames == {"x-payment", "X-PAYMENT", "payment-signature", "PAYMENT-SIGNATURE"}

\* A header of req.headers: its name as the host stores it and its value.
Header(name, value) == [name |-> name, value |-> value]

\* headers[name]: the value, undefined (here "", falsy as well) without it.
HeaderValue(headers, name) ==
    IF \E h \in headers : h.name = name
    THEN (CHOOSE h \in headers : h.name = name).value
    ELSE ""

\* hasPaymentHeaders looking up the lower-case names only.
HasPaymentHeadersLowerCase(request) ==
    \E name \in {"x-payment", "payment-signature"} : HeaderValue(request.headers, name) /= ""

\* !!(headers['x-payment'] || headers['X-PAYMENT'] || ...)
HasPaymentHeaders(request) ==
    \E name \in PaymentHeaderNames : HeaderValue(request.headers, name) /= ""

\* part_001:31: req.path || (req.url ? req.url.split('?')[0] : '') || ''
GatedRoutePath(request) ==
    IF ~Falsy(request.path) THEN request.path.s
    ELSE IF ~Falsy(request.url) THEN BeforeQuery(request.url.s)
    ELSE <<>>

\* The handler of the header-gated variant (part_001:28-50) up to its await:
\* the route is req.path or the URL before "?", a configured route is
\* validated only with a payment header, and the payload is req.body || {}.
GatedReceive(r, request) ==
    /\ pc[r] = "idle"
    /\ LET routePath == GatedRoutePath(request)
           found == Lookup(config.endpoints, routePath)
           body == request.body
           falsy == \/ body.t \in {"undefined", "null"}
                    \/ body.t = "string" /\ body.s = <<>>
                    \/ body.t = "number" /\ body.n = 0
                    \/ body.t = "boolean" /\ ~body.b
           payload == IF falsy THEN JsObject(<<>>) ELSE body
       IN  IF ~found.found \/ ~HasPaymentHeaders(request)
           THEN /\ CallNext(r, request, <<>>)
                /\ UNCHANGED <<net, calls>>
           ELSE IF ~found.config.hasExpected
           THEN /\ Catch(r, request, "Cannot convert undefined or null to object", <<>>)
                /\ UNCHANGED <<net, calls>>
           ELSE /\ PostToOracle(r, generateRulesFromExpectedRequest(found.config.expectedRequest), payload)
                /\ pc' = [pc EXCEPT ![r] = "awaiting"]
                /\ req' = [req EXCEPT ![r] = request]
                /\ UNCHANGED <<nexts, sent, log>>
    /\ UNCHANGED <<config, reply, deriverVars, pathVars>>

\* The handler of middleware.ts replaced by that of the header-gated variant.
ReceiveGatedOnHeaders(r, request) == GatedReceive(r, request)

\* The handler keeping the rules it derived in the EndpointConfig, in place
\* of expectedRequest, to derive them once per route.
ReceiveCachingRules(r, request) ==
    /\ pc[r] = "idle"
    /\ LET routePath == ResolveRoutePath(request)
           endpoints == config.endpoints
           called == Debug(<<"Middleware called", "Method", "Route path", "req.path",
                             "req.url", "Configured endpoints">>)
           found == Lookup(endpoints, routePath)
       IN  IF ~found.found
           THEN /\ CallNext(r, request, called \o Debug(<<"not configured, skipping validation">>))
                /\ UNCHANGED <<net, calls, config>>
           ELSE LET endpointConfig == found.config
                    payload == request.body
                    detected == called \o Debug(<<"Payload exists", "Payload keys count", "Request body">>)
                IN  IF ~HasPayload(payload)
                    THEN /\ CallNext(r, request, detected \o Debug(<<"No payload or empty payload, skipping validation">>))
                         /\ UNCHANGED <<net, calls, config>>
                    ELSE LET validating == detected \o Debug(<<"Validating payload", "Expected request structure">>)
                         IN  IF ~endpointConfig.hasExpected
                             \* Object.entries(undefined) throws in generateRulesFromExpectedRequest
                             THEN /\ Catch(r, request, "Cannot convert undefined or null to object", validating)
                                  /\ UNCHANGED <<net, calls, config>>
                             ELSE IF config.debug /\ StringifyThrows(endpointConfig.expectedRequest)
                             \* line 86: JSON.stringify(expectedRequest) of the trace throws
                             THEN /\ Catch(r, request, "Do not know how to serialize a BigInt",
                                           detected \o Debug(<<"Validating payload">>))
                                  /\ UNCHANGED <<net, calls, config>>
                             ELSE LET rules == generateRulesFromExpectedRequest(endpointConfig.expectedRequest)
                                  IN  /\ PostToOracle(r, rules, payload)
                                      /\ pc' = [pc EXCEPT ![r] = "awaiting"]
                                      /\ req' = [req EXCEPT ![r] = request]
                                      /\ log' = [log EXCEPT ![r] = @ \o validating
                                                   \o Debug(<<"Generated rules", "Calling validation API", "API request body">>)]
                                      /\ config' = [config EXCEPT !.endpoints[routePath].expectedRequest =
                                                        [field \in DOMAIN rules |-> JsString(rules[field])]]
                                      /\ UNCHANGED <<nexts, sent>>
    /\ UNCHANGED <<reply, deriverVars, pathVars>>

\* Lines 24-93: the host calls the handler, which runs to its first
\* suspension: it returns through next(), or fails, or has POSTed the rules
\* and the payload to the oracle and awaits the fetch.
Receive(r, request) ==
    /\ pc[r] = "idle"
    /\ LET routePath == ResolveRoutePath(request)
           endpoints == config.endpoints
           called == Debug(<<"Middleware called", "Method", "Route path", "req.path",
                             "req.url", "Configured endpoints">>)
           found == Lookup(endpoints, routePath)
       IN  IF ~found.found
           THEN /\ CallNext(r, request, called \o Debug(<<"not configured, skipping validation">>))
                /\ UNCHANGED <<net, calls>>
           ELSE LET endpointConfig == found.config
                    payload == request.body
                    detected == called \o Debug(<<"Payload exists", "Payload keys count", "Request body">>)
                IN  IF ~HasPayload(payload)
                    THEN /\ CallNext(r, request, detected \o Debug(<<"No payload or empty payload, skipping validation">>))
                         /\ UNCHANGED <<net, calls>>
                    ELSE LET validating == detected \o Debug(<<"Validating payload", "Expected request structure">>)
                         IN  IF ~endpointConfig.hasExpected
                             \* Object.entries(undefined) throws in generateRulesFromExpectedRequest
                             THEN /\ Catch(r, request, "Cannot convert undefined or null to object", validating)
                                  /\ UNCHANGED <<net, calls>>
                             ELSE IF config.debug /\ StringifyThrows(endpointConfig.expectedRequest)
                             \* line 86: JSON.stringify(expectedRequest) of the trace throws
                             THEN /\ Catch(r, request, "Do not know how to serialize a BigInt",
                                           detected \o Debug(<<"Validating payload">>))
                                  /\ UNCHANGED <<net, calls>>
                             ELSE LET rules == generateRulesFromExpectedRequest(endpointConfig.expectedRequest)
                                  IN  /\ PostToOracle(r, rules, payload)
                                      /\ pc' = [pc EXCEPT ![r] = "awaiting"]
                                      /\ req' = [req EXCEPT ![r] = request]
                                      /\ log' = [log EXCEPT ![r] = @ \o validating
                                                   \o Debug(<<"Generated rules", "Calling validation API", "API request body">>)]
                                      /\ UNCHANGED <<nexts, sent>>
    /\ UNCHANGED <<config, reply, deriverVars, pathVars>>

\* Lines 117-121 in the other order: next() is called before the result is attached.
AcceptNextFirst(r, validationResult, lines) ==
    /\ req' = [req EXCEPT ![r].smartLayerValidation = Attached(validationResult)]
    /\ nexts' = [nexts EXCEPT ![r] = Append(@, req[r].smartLayerValidation)]
    /\ log' = [log EXCEPT ![r] = @ \o lines]
    /\ pc' = [pc EXCEPT ![r] = "done"]
    /\ UNCHANGED sent

\* Lines 115-121: attach the result to the req object, then call next().
\* Lines 115-121 keeping the result in a place every handler shares: it is
\* attached to each request whose handler has not returned.
AcceptShared(r, validationResult, lines) ==
    /\ req' = [q \in Requests |->
                  IF q = r \/ pc[q] = "awaiting"
                  THEN [req[q] EXCEPT !.smartLayerValidation = Attached(validationResult)]
                  ELSE req[q]]
    /\ nexts' = [nexts EXCEPT ![r] = Append(@, Attached(validationResult))]
    /\ log' = [log EXCEPT ![r] = @ \o lines]
    /\ pc' = [pc EXCEPT ![r] = "done"]
    /\ UNCHANGED sent

Accept(r, validationResult, lines) ==
    CallNext(r, [req[r] EXCEPT !.smartLayerValidation = Attached(validationResult)], lines)

\* Lines 104-112 answering with the status of the failure branch.
RejectAs500(r, validationResult, lines) ==
    Respond(r, req[r], [RejectionOf(validationResult) EXCEPT !.status = 500], lines)

\* Lines 104-112 without the return: the response is written and the
\* handler goes on to attach the result and call next().
RejectFallsThrough(r, validationResult, lines) ==
    /\ req' = [req EXCEPT ![r].smartLayerValidation = Attached(validationResult)]
    /\ sent' = [sent EXCEPT ![r] = Append(@, RejectionOf(validationResult))]
    /\ nexts' = [nexts EXCEPT ![r] = Append(@, Attached(validationResult))]
    /\ log' = [log EXCEPT ![r] = @ \o lines]
    /\ pc' = [pc EXCEPT ![r] = "done"]

\* Lines 99-113: the validation failed, answer 400.
Reject(r, validationResult, lines) ==
    Respond(r, req[r], RejectionOf(validationResult), lines)

\* Lines 122-135 passing the request on instead of answering.
FailOpen(r, message, lines) == CallNext(r, req[r], lines)

\* Lines 122-135 for an error thrown by validateRequest.
Fail(r, message, lines) == Catch(r, req[r], message, lines)

\* Lines 78-135: the fetch settles and the handler runs to its end.
OracleSettles(r, settled) ==
    /\ pc[r] = "awaiting"
    /\ net[r] = "inflight"
    /\ net' = [net EXCEPT ![r] = "settled"]
    /\ reply' = [reply EXCEPT ![r] = settled]
    /\ LET outcome == validatePayload(settled)
           status == IF settled.kind = "response" THEN Debug(<<"API response status">>) ELSE <<>>
       IN  IF outcome.threw
           THEN Fail(r, outcome.message,
                     status \o (IF settled.kind = "response" /\ ~Ok(settled)
                                THEN Debug(<<"API error">>) ELSE <<>>))
           ELSE LET result == status \o Debug(<<"API response", "Validation result">>)
                IN  IF outcome.result = "null"
                    \* reading validationResult.valid of null throws
                    THEN Fail(r, "Cannot read properties of null (reading 'valid')", result)
                    ELSE IF outcome.verdict.valid \in {"false", "missing"}
                    THEN Reject(r, outcome.verdict, result \o Debug(<<"Validation failed">>))
                    ELSE Accept(r, outcome.verdict, result \o Debug(<<"Validation passed">>))
    /\ UNCHANGED <<config, calls, deriverVars, pathVars>>

\* The oracle never answers: the fetch of line 78 carries no signal and no
\* timeout, so nothing settles it and the handler stays suspended.
OracleNeverReplies(r) ==
    /\ pc[r] = "awaiting"
    /\ net[r] = "inflight"
    /\ net' = [net EXCEPT ![r] = "lost"]
    /\ UNCHANGED <<config, req, pc, calls, reply, nexts, sent, log, deriverVars, pathVars>>

(***************************************************************************)
(* Inputs of the gate.                                                     *)
(***************************************************************************)
InstructionPrompt ==
    <<"m", "u", "s", "t", " ", "b", "e", " ", "a", " ", "n", "o", "n", "-", "e", "m", "p", "t", "y", " ", "s", "t", "r", "i", "n", "g">>

\* "/a" and "/" are configured, "/m" is configured without expectedRequest,
\* every other route is not configured.
GateEndpoints ==
    [route \in {<<"/", "a">>, <<"/">>, <<"/", "m">>} |->
        CASE route = <<"/", "a">> ->
                 Endpoint([field \in {"prompt", "style"} |->
                              IF field = "prompt" THEN JsString(InstructionPrompt)
                              ELSE JsString(<<"b", "l", "u", "e">>)])
          [] route = <<"/">> ->
                 Endpoint([field \in {"count"} |-> JsNumber(3)])
          [] OTHER -> MalformedEndpoint]

GateConfigs == [endpoints : {GateEndpoints}, debug : BOOLEAN]

GateBodies ==
    {JsUndefined, JsNull, JsObject(<<>>), JsObject(<<"prompt">>), JsObject(<<"prompt", "style">>),
     JsArray(<<>>), JsArray(<<"e">>), JsString(<<"b", "l", "u", "e">>), JsNumber(5), JsBoolean(TRUE)}

GateRequests ==
    [path : {Absent, Present(<<"/", "a">>), Present(<<"/", "a", "/">>), Present(<<"/", "m">>),
             Present(<<"/", "b">>), Present(<<"/">>)},
     url : {Absent, Present(<<"/", "a", "?", "a">>)},
     originalUrl : {Absent},
     method : {"POST"},
     body : GateBodies,
     headers : {{}},
     smartLayerValidation : {NotAttached}]

OracleOutcomes ==
    {Rejected("fetch failed"), Rejected(""),
     ErrorResponse(503, "invalid", "Service Unavailable", "", ""),
     ErrorResponse(503, "invalid", "", "", ""),
     ErrorResponse(400, "object", "", "bad rules", "ignored"),
     ErrorResponse(500, "object", "", "", "boom"),
     ErrorResponse(500, "object", "", "", ""),
     ErrorResponse(502, "null", "null", "", ""),
     ErrorResponse(404, "scalar", "", "", ""),
     ErrorResponse(200, "invalid", "<html>", "", ""),
     ErrorResponse(200, "null", "null", "", ""),
     VerdictResponse(200, Verdict("true", <<>>, <<"w1">>, "ok")),
     VerdictResponse(201, Verdict("true", <<>>, <<>>, "ok")),
     VerdictResponse(200, Verdict("false", <<"e1", "e2">>, <<"w1">>, "2 errors")),
     VerdictResponse(200, Verdict("false", <<"e2", "e1">>, <<>>, "2 errors")),
     VerdictResponse(200, Verdict("truthy", <<>>, <<>>, "ok")),
     VerdictResponse(200, NoVerdict)}

(***************************************************************************)
(* The gate: createSmartLayer(config), then requests handled concurrently. *)
(***************************************************************************)
PathIdle ==
    /\ pReq = [path |-> Absent, url |-> Absent, originalUrl |-> Absent]
    /\ pRoute = <<>>
    /\ pFound = FALSE
    /\ pDone = FALSE

GateIdle ==
    /\ config = [endpoints |-> GateEndpoints, debug |-> FALSE]
    /\ req = [r \in Requests |-> NoRequest]
    /\ pc = [r \in Requests |-> "idle"]
    /\ net = [r \in Requests |-> "none"]
    /\ calls = [r \in Requests |-> <<>>]
    /\ reply = [r \in Requests |-> NoReply]
    /\ nexts = [r \in Requests |-> <<>>]
    /\ sent = [r \in Requests |-> <<>>]
    /\ log = [r \in Requests |-> <<>>]

Init ==
    /\ config \in GateConfigs
    /\ req = [r \in Requests |-> NoRequest]
    /\ pc = [r \in Requests |-> "idle"]
    /\ net = [r \in Requests |-> "none"]
    /\ calls = [r \in Requests |-> <<>>]
    /\ reply = [r \in Requests |-> NoReply]
    /\ nexts = [r \in Requests |-> <<>>]
    /\ sent = [r \in Requests |-> <<>>]
    /\ log = [r \in Requests |-> <<>>]
    /\ dIn = <<>> /\ dOut = <<>> /\ dDone = FALSE
    /\ PathIdle

Next ==
    \/ \E r \in Requests : \E request \in GateRequests : Receive(r, request)
    \/ \E r \in Requests : \E settled \in OracleOutcomes : OracleSettles(r, settled)
    \/ \E r \in Requests : OracleNeverReplies(r)

Spec == Init /\ [][Next]_vars

\* The handler's own steps are taken when they can be, and a fetch that is
\* still in flight settles; nothing is assumed of a fetch the oracle never
\* answers.
FairSpec ==
    /\ Spec
    /\ \A r \in Requests :
           /\ WF_vars(\E request \in GateRequests : Receive(r, request))
           /\ WF_vars(\E settled \in OracleOutcomes : OracleSettles(r, settled))

(***************************************************************************)
(* The gate under requests that carry headers.                             *)
(***************************************************************************)
HeaderSets ==
    {{}, {Header("x-payment", "sig")}, {Header("PAYMENT-SIGNATURE", "sig")},
     {Header("x-payment", "sig"), Header("payment-signature", "sig")},
     {Header("content-type", "application/json")}}

HeaderRequests ==
    [path : {Present(<<"/", "a">>), Present(<<"/", "m">>), Present(<<"/", "b">>)},
     url : {Absent},
     originalUrl : {Absent},
     method : {"POST"},
     body : {JsUndefined, JsObject(<<>>), JsObject(<<"prompt">>), JsArray(<<"e">>)},
     headers : HeaderSets,
     smartLayerValidation : {NotAttached}]

HeaderNext ==
    \/ \E r \in Requests : \E request \in HeaderRequests : Receive(r, request)
    \/ \E r \in Requests : \E settled \in OracleOutcomes : OracleSettles(r, settled)
    \/ \E r \in Requests : OracleNeverReplies(r)

SpecHeaders == Init /\ [][HeaderNext]_vars

(***************************************************************************)
(* The header-gated variant of the gate (part_001): its handler up to the  *)
(* await, and from there the steps of middleware.ts with debug off, which  *)
(* part_001:52-79 repeats without the trace.                               *)
(***************************************************************************)
GatedHeaderSets ==
    {{}, {Header("x-payment", "sig")}, {Header("X-PAYMENT", "sig")},
     {Header("payment-signature", "sig")}, {Header("PAYMENT-SIGNATURE", "sig")},
     {Header("x-payment", "")}, {Header("content-type", "application/json")},
     {Header("x-payment", ""), Header("PAYMENT-SIGNATURE", "sig")}}

GatedRequests ==
    [path : {Present(<<"/", "a">>), Present(<<"/", "m">>), Present(<<"/", "b">>)},
     url : {Absent},
     originalUrl : {Absent},
     method : {"POST"},
     body : {JsUndefined, JsObject(<<"prompt">>)},
     headers : GatedHeaderSets,
     smartLayerValidation : {NotAttached}]

GatedInit ==
    /\ config = [endpoints |-> GateEndpoints, debug |-> FALSE]
    /\ req = [r \in Requests |-> NoRequest]
    /\ pc = [r \in Requests |-> "idle"]
    /\ net = [r \in Requests |-> "none"]
    /\ calls = [r \in Requests |-> <<>>]
    /\ reply = [r \in Requests |-> NoReply]
    /\ nexts = [r \in Requests |-> <<>>]
    /\ sent = [r \in Requests |-> <<>>]
    /\ log = [r \in Requests |-> <<>>]
    /\ dIn = <<>> /\ dOut = <<>> /\ dDone = FALSE
    /\ PathIdle

\* part_001:47-79: the fetch settles and the handler runs to its end.
GatedOracleSettles(r, settled) ==
    /\ ~config.debug
    /\ OracleSettles(r, settled)

GatedNext ==
    \/ \E r \in Requests : \E request \in GatedRequests : GatedReceive(r, request)
    \/ \E r \in Requests : \E settled \in OracleOutcomes : GatedOracleSettles(r, settled)
    \/ \E r \in Requests : OracleNeverReplies(r)

SpecGated == GatedInit /\ [][GatedNext]_vars

(***************************************************************************)
(* Two gates that differ in debug only: createSmartLayer is called again   *)
(* with the other flag while no handler of the first gate is suspended,    *)
(* and the requests that follow go to the new gate.                        *)
(***************************************************************************)
\* "/a" as before, and "/n" whose expectedRequest holds a BigInt example.
DebugEndpoints ==
    [route \in {<<"/", "a">>, <<"/", "n">>} |->
        IF route = <<"/", "a">>
        THEN Endpoint([field \in {"prompt"} |-> JsString(<<"b", "l", "u", "e">>)])
        ELSE Endpoint([field \in {"amount"} |-> JsBigInt(10)])]

DebugConfigs == [endpoints : {DebugEndpoints}, debug : BOOLEAN]

DebugRequests ==
    [path : {Present(<<"/", "a">>), Present(<<"/", "n">>), Present(<<"/", "b">>)},
     url : {Absent},
     originalUrl : {Absent},
     method : {"POST"},
     body : {JsObject(<<>>), JsObject(<<"prompt">>)},
     headers : {{}},
     smartLayerValidation : {NotAttached}]

DebugInit ==
    /\ config \in DebugConfigs
    /\ req = [r \in Requests |-> NoRequest]
    /\ pc = [r \in Requests |-> "idle"]
    /\ net = [r \in Requests |-> "none"]
    /\ calls = [r \in Requests |-> <<>>]
    /\ reply = [r \in Requests |-> NoReply]
    /\ nexts = [r \in Requests |-> <<>>]
    /\ sent = [r \in Requests |-> <<>>]
    /\ log = [r \in Requests |-> <<>>]
    /\ dIn = <<>> /\ dOut = <<>> /\ dDone = FALSE
    /\ PathIdle

\* createSmartLayer(config) with the same endpoints and the other debug flag.
Rebuild ==
    /\ \A r \in Requests : pc[r] /= "awaiting"
    /\ config' = [config EXCEPT !.debug = ~config.debug]
    /\ UNCHANGED <<req, pc, net, calls, reply, nexts, sent, log, deriverVars, pathVars>>

DebugNext ==
    \/ \E r \in Requests : \E request \in DebugRequests : Receive(r, request)
    \/ \E r \in Requests : \E settled \in OracleOutcomes : OracleSettles(r, settled)
    \/ \E r \in Requests : OracleNeverReplies(r)
    \/ Rebuild

SpecDebug == DebugInit /\ [][DebugNext]_vars

(***************************************************************************)
(* Route resolution on its own: draw a request, resolve its route.         *)
(***************************************************************************)
PathAlphabet == {"/", "a", "?"}

PathStrings == UNION {[1..k -> PathAlphabet] : k \in 0..MaxPathLen}

OptionalPaths == {Absent} \cup {Present(str) : str \in PathStrings}

PathRequests ==
    [path : OptionalPaths,
     url : OptionalPaths,
     originalUrl : {Absent, Present(<<"/">>), Present(<<"/", "a", "/">>)}]

\* The endpoints map route resolution looks its routes up in.
PathEndpoints ==
    [route \in {<<"/", "a">>, <<"/">>} |-> Endpoint([field \in {"prompt"} |-> JsNull])]

PathInit ==
    /\ pReq \in PathRequests
    /\ pRoute = <<>>
    /\ pFound = FALSE
    /\ pDone = FALSE
    /\ dIn = <<>> /\ dOut = <<>> /\ dDone = FALSE
    /\ GateIdle

ResolveRoute ==
    /\ ~pDone
    /\ pRoute' = ResolveRoutePath(pReq)
    /\ pFound' = Lookup(PathEndpoints, pRoute').found
    /\ pDone' = TRUE
    /\ UNCHANGED <<pReq, deriverVars, gateVars>>

PathNext == ResolveRoute

SpecPath == PathInit /\ [][PathNext]_vars


(***************************************************************************)
(* Inputs of the rule deriver.                                             *)
(***************************************************************************)
RECURSIVE Pad(_)
Pad(k) == IF k = 0 THEN <<>> ELSE <<"x">> \o Pad(k - 1)

\* The cores: short examples, each keyword in several cases, near misses of
\* the keywords, and "be" followed by different runs of whitespace.
StringCores ==
    { <<>>,
      <<"b", "l", "u", "e">>,
      <<"m", "u", "s", "t">>, <<"M", "u", "S", "t">>, <<"m", "u", "s">>,
      <<"s", "h", "o", "u", "l", "d">>, <<"S", "H", "O", "U", "L", "D">>,
      <<"r", "e", "q", "u", "i", "r", "e", "d">>, <<"r", "e", "q", "u", "i", "r", "e">>,
      <<"v", "a", "l", "i", "d">>, <<"V", "a", "l", "i", "d">>,
      <<"m", "a", "t", "c", "h">>, <<"m", "a", "t", "-", "c", "h">>,
      <<"b", "e", " ", "a">>, <<"B", "e", " ", "A", "n">>, <<"b", "e", " ", "a", "n">>,
      <<"b", "e", " ", " ", "a">>, <<"b", "e", "\t", "a">>, <<"b", "e", "\n", "a", "n">>,
      <<"b", "e", "a">>, <<"b", "e", " ", "o">>, <<"b", " ", "a">>, <<"b", "e", "-", "a">> }

StringDescriptors ==
    { JsString(Pad(i) \o core \o Pad(j)) :
        <<i, j, core>> \in { <<i, j, core>> \in (0..MaxPad) \X (0..MaxPad) \X StringCores :
                               i + j <= MaxPad /\ (i = 0 \/ j = 0 \/ i = 1) } }

RECURSIVE Elements(_)
Elements(k) == IF k = 0 THEN <<>> ELSE Elements(k - 1) \o <<"e">>

OtherDescriptors ==
    {JsNull, JsUndefined, JsObject(<<>>), JsObject(<<"k">>), JsFunction, JsBigInt(10)}
    \cup {JsNumber(num) : num \in (0 - MaxNum)..MaxNum}
    \cup {JsBoolean(bool) : bool \in BOOLEAN}
    \cup {JsArray(Elements(k)) : k \in 0..MaxArr}

Descriptors == StringDescriptors \cup OtherDescriptors

\* expectedRequest maps: one field with any descriptor, or two fields of
\* which the second has a descriptor that is not a string.
ExpectationMaps ==
    {[field \in {"prompt"} |-> d] : d \in Descriptors}
    \cup {[field \in {"prompt", "style"} |-> IF field = "prompt" THEN pr.d1 ELSE pr.d2] :
            pr \in [d1 : OtherDescriptors \cup {JsString(<<"b", "l", "u", "e">>)},
                    d2 : OtherDescriptors]}

(***************************************************************************)
(* The rule deriver on its own: draw a map, derive its rules.              *)
(***************************************************************************)
DeriveInit ==
    /\ dIn \in ExpectationMaps
    /\ dOut = <<>>
    /\ dDone = FALSE
    /\ PathIdle
    /\ GateIdle

Derive ==
    /\ ~dDone
    /\ dOut' = generateRulesFromExpectedRequest(dIn)
    /\ dDone' = TRUE
    /\ UNCHANGED <<dIn, pathVars, gateVars>>

DeriveNext == Derive

SpecDerive == DeriveInit /\ [][DeriveNext]_vars

(***************************************************************************)
(* Vocabulary of the statements about the rule deriver.                    *)
(***************************************************************************)
FoldAll(str) == [k \in 1..Len(str) |-> Fold(str[k])]

\* str contains the lower-case text lit, ignoring the case of str.
ContainsIgnoringCase(str, lit) ==
    \E i \in 1..Len(str) : \E j \in i..Len(str) : FoldAll(SubSeq(str, i, j)) = lit

HasPrefix(str, pre) == Len(pre) <= Len(str) /\ SubSeq(str, 1, Len(pre)) = pre

\* One of the five keywords occurs in str.
HasKeyword(str) ==
    \E kw \in { <<"m", "u", "s", "t">>, <<"s", "h", "o", "u", "l", "d">>,
                <<"r", "e", "q", "u", "i", "r", "e", "d">>,
                <<"v", "a", "l", "i", "d">>, <<"m", "a", "t", "c", "h">> } :
        ContainsIgnoringCase(str, kw)

\* "be a" or "be an" occurs in str, with the single space written there.
HasBeAPhrase(str) ==
    \/ ContainsIgnoringCase(str, <<"b", "e", " ", "a">>)
    \/ ContainsIgnoringCase(str, <<"b", "e", " ", "a", "n">>)

\* "be", a run of one or more whitespace characters, then "a" occurs in str.
HasBeWhitespaceA(str) ==
    \E i \in 1..Len(str) : \E j \in i..Len(str) :
        /\ j - i >= 3
        /\ FoldAll(SubSeq(str, i, i + 1)) = <<"b", "e">>
        /\ \A k \in (i + 2)..(j - 1) : IsWhitespace(str[k])
        /\ Fold(str[j]) = "a"

StringFields == {field \in DOMAIN dIn : dIn[field].t = "string"}

\* The decimal numeral text denotes: digits, after "-" for a negative number.
RECURSIVE DigitsValue(_)
DigitsValue(text) ==
    IF text = <<>> THEN 0
    ELSE 10 * DigitsValue(SubSeq(text, 1, Len(text) - 1))
         + ((CHOOSE d \in 1..10 : Digits[d] = text[Len(text)]) - 1)

IsDigits(text) ==
    /\ text /= <<>>
    /\ \A k \in 1..Len(text) : \E d \in 1..10 : Digits[d] = text[k]
    /\ (Len(text) > 1 => text[1] /= "0")

IsNumeralOf(text, num) ==
    IF num < 0
    THEN /\ HasPrefix(text, <<"-">>)
         /\ IsDigits(Tail(text))
         /\ DigitsValue(Tail(text)) = 0 - num
    ELSE IsDigits(text) /\ DigitsValue(text) = num

\* The backtick character (U+0060), which a string of this notation cannot hold.
Backtick == "U+0060"

\* The text " (example: " that opens an example.
ExampleOpen == <<" ", "(", "e", "x", "a", "m", "p", "l", "e", ":", " ">>

\* rule is head, then " (example: ", then a non-empty example, then ")".
HasExample(rule, head) ==
    /\ HasPrefix(rule, head \o ExampleOpen)
    /\ Len(rule) > Len(head \o ExampleOpen) + 1
    /\ rule[Len(rule)] = ")"

\* The example of such a rule.
ExampleIn(rule, head) == SubSeq(rule, Len(head \o ExampleOpen) + 1, Len(rule) - 1)

\* The same with the example wrapped in backticks.
HasBacktickExample(rule, head) ==
    /\ HasPrefix(rule, head \o ExampleOpen \o <<Backtick>>)
    /\ Len(rule) > Len(head \o ExampleOpen) + 3
    /\ SubSeq(rule, Len(rule) - 1, Len(rule)) = <<Backtick, ")">>

BacktickExampleIn(rule, head) == SubSeq(rule, Len(head \o ExampleOpen) + 2, Len(rule) - 2)

TextNonEmptyString == <<"m", "u", "s", "t", " ", "b", "e", " ", "a", " ", "n", "o", "n", "-", "e", "m", "p", "t", "y", " ", "s", "t", "r", "i", "n", "g">>
TextNumber == <<"m", "u", "s", "t", " ", "b", "e", " ", "a", " ", "n", "u", "m", "b", "e", "r">>
TextBoolean == <<"m", "u", "s", "t", " ", "b", "e", " ", "a", " ", "b", "o", "o", "l", "e", "a", "n">>

\* C9 as stated: a string descriptor is the rule verbatim iff it is longer
\* than 20 characters or contains "must", "should", "required", "valid",
\* "match", "be a" or "be an" in any case; every other string gets the rule
\* of an example value.
C9_AsStated ==
    dDone =>
        \A field \in StringFields :
            LET str == dIn[field].s
                instruction == Len(str) > 20 \/ HasKeyword(str) \/ HasBeAPhrase(str)
            IN  /\ instruction => dOut[field] = str
                /\ ~instruction => /\ dOut[field] /= str
                                   /\ HasPrefix(dOut[field], TextNonEmptyString)

\* The strings C9 as amended classifies as instructions.
ReadsAsInstruction(str) ==
    Len(str) > 20 \/ HasKeyword(str) \/ HasBeWhitespaceA(str)

\* C9 as amended: a string descriptor is the rule verbatim iff it is longer
\* than 20 characters or contains, in any case, "must", "should",
\* "required", "valid", "match", or "be" followed by one or more whitespace
\* characters and "a"; every other string (one of exactly 20 characters
\* without a keyword too) gets the rule of an example value.
C9_StringClassification ==
    dDone =>
        \A field \in StringFields :
            LET str == dIn[field].s
            IN  /\ ReadsAsInstruction(str) => dOut[field] = str
                /\ ~ReadsAsInstruction(str) => /\ dOut[field] /= str
                                               /\ HasPrefix(dOut[field], TextNonEmptyString)

\* A descriptor of at most 20 characters whose only instruction mark is "be",
\* a tab, "a" has been derived and is its own rule.
C9_Witness ==
    /\ dDone
    /\ "prompt" \in DOMAIN dIn
    /\ dIn["prompt"] = JsString(<<"x", "b", "e", "\t", "a">>)
    /\ dOut["prompt"] = <<"x", "b", "e", "\t", "a">>

\* The text ${value} gives for a boolean.
BooleanText(bool) == IF bool THEN <<"t", "r", "u", "e">> ELSE <<"f", "a", "l", "s", "e">>

\* C10 as stated: an example string, a number and a boolean get the rules
\* "must be a non-empty string|number|boolean (example: <value>)" with
\* <value> wrapped in backticks and always there, for "", 0 and false too.
C10_AsStated ==
    dDone =>
        \A field \in DOMAIN dIn :
            LET d == dIn[field]
                rule == dOut[field]
            IN  /\ (d.t = "string" /\ ~ReadsAsInstruction(d.s)) =>
                       IF d.s = <<>>
                       THEN rule = TextNonEmptyString \o ExampleOpen \o <<Backtick, Backtick, ")">>
                       ELSE /\ HasBacktickExample(rule, TextNonEmptyString)
                            /\ BacktickExampleIn(rule, TextNonEmptyString) = d.s
                /\ d.t = "number" =>
                       /\ HasBacktickExample(rule, TextNumber)
                       /\ IsNumeralOf(BacktickExampleIn(rule, TextNumber), d.n)
                /\ d.t = "boolean" =>
                       /\ HasBacktickExample(rule, TextBoolean)
                       /\ BacktickExampleIn(rule, TextBoolean) = BooleanText(d.b)

\* C10 as amended: an example string gets "must be a non-empty string
\* (example: <value>)", the value as it is, without backticks, and the empty
\* string gets "must be a non-empty string" with no example; a number gets
\* "must be a number (example: <value>)" and a boolean "must be a boolean
\* (example: <value>)", the example always there, for 0 and false too.
C10_ExampleRules ==
    dDone =>
        \A field \in DOMAIN dIn :
            LET d == dIn[field]
                rule == dOut[field]
            IN  /\ (d.t = "string" /\ ~ReadsAsInstruction(d.s)) =>
                       IF d.s = <<>>
                       THEN rule = TextNonEmptyString
                       ELSE /\ HasExample(rule, TextNonEmptyString)
                            /\ ExampleIn(rule, TextNonEmptyString) = d.s
                /\ d.t = "number" =>
                       /\ HasExample(rule, TextNumber)
                       /\ IsNumeralOf(ExampleIn(rule, TextNumber), d.n)
                /\ d.t = "boolean" =>
                       /\ HasExample(rule, TextBoolean)
                       /\ ExampleIn(rule, TextBoolean) = BooleanText(d.b)

\* The rules of an example string and of the number 0 have been derived.
C10_Witness ==
    /\ dDone
    /\ DOMAIN dIn = {"prompt", "style"}
    /\ dIn["prompt"] = JsString(<<"b", "l", "u", "e">>)
    /\ dIn["style"] = JsNumber(0)
    /\ dOut["style"] = TextNumber \o <<" ", "(", "e", "x", "a", "m", "p", "l", "e", ":", " ", "0", ")">>

TextOptional == <<"f", "i", "e", "l", "d", " ", "i", "s", " ", "o", "p", "t", "i", "o", "n", "a", "l">>
TextArray == <<"m", "u", "s", "t", " ", "b", "e", " ", "a", "n", " ", "a", "r", "r", "a", "y">>
TextWith == <<" ", "w", "i", "t", "h", " ">>
TextElements == <<" ", "e", "l", "e", "m", "e", "n", "t", "(", "s", ")">>
TextObject == <<"m", "u", "s", "t", " ", "b", "e", " ", "a", "n", " ", "o", "b", "j", "e", "c", "t", " ", "m", "a", "t", "c", "h", "i", "n", "g", " ", "t", "h", "e", " ", "e", "x", "p", "e", "c", "t", "e", "d", " ", "s", "t", "r", "u", "c", "t", "u", "r", "e">>
TextOther == <<"m", "u", "s", "t", " ", "m", "a", "t", "c", "h", " ", "t", "h", "e", " ", "e", "x", "p", "e", "c", "t", "e", "d", " ", "t", "y", "p", "e", " ", "a", "n", "d", " ", "s", "t", "r", "u", "c", "t", "u", "r", "e">>
FullStop == <<".">>

HasSuffix(str, suf) ==
    Len(suf) <= Len(str) /\ SubSeq(str, Len(str) - Len(suf) + 1, Len(str)) = suf

\* rule is "must be an array", and for a non-empty array " with <n> element(s)"
\* after it, <n> the decimal numeral of the number of elements.
IsArrayRule(rule, elems) ==
    IF Len(elems) = 0 THEN rule = TextArray
    ELSE /\ HasPrefix(rule, TextArray \o TextWith)
         /\ HasSuffix(rule, TextElements)
         /\ Len(rule) > Len(TextArray \o TextWith) + Len(TextElements)
         /\ IsNumeralOf(SubSeq(rule, Len(TextArray \o TextWith) + 1,
                                Len(rule) - Len(TextElements)),
                        Len(elems))

\* The descriptors that are neither null, absent, a string, a number, a
\* boolean, an array nor an object.
IsOtherKind(d) ==
    d.t \notin {"null", "undefined", "string", "number", "boolean", "array", "object"}

\* C11 as stated: a null or absent descriptor gets "field is optional.", an
\* array "must be an array" (with " with <n> element(s)" when it is not
\* empty), a non-array object "must be an object matching the expected
\* structure.", any other value "must match the expected type and
\* structure.", each of the three with its full stop; an array never gets the
\* rule of an object.
C11_AsStated ==
    dDone =>
        \A field \in DOMAIN dIn :
            LET d == dIn[field]
                rule == dOut[field]
            IN  /\ d.t \in {"null", "undefined"} => rule = TextOptional \o FullStop
                /\ d.t = "array" => /\ IsArrayRule(rule, d.items)
                                    /\ rule /= TextObject \o FullStop
                /\ d.t = "object" => rule = TextObject \o FullStop
                /\ IsOtherKind(d) => rule = TextOther \o FullStop

\* C11 as amended: a null or absent descriptor gets "field is optional", an
\* array "must be an array" (with " with <n> element(s)" when it is not
\* empty), a non-array object "must be an object matching the expected
\* structure", any other value "must match the expected type and structure",
\* none of them ending in a full stop; an array never gets the rule of an
\* object.
C11_NonScalarRules ==
    dDone =>
        \A field \in DOMAIN dIn :
            LET d == dIn[field]
                rule == dOut[field]
            IN  /\ d.t \in {"null", "undefined"} => rule = TextOptional
                /\ d.t = "array" => /\ IsArrayRule(rule, d.items)
                                    /\ rule /= TextObject
                /\ d.t = "object" => rule = TextObject
                /\ IsOtherKind(d) => rule = TextOther

\* The rules of an array of two elements and of a null descriptor have been
\* derived.
C11_Witness ==
    /\ dDone
    /\ DOMAIN dIn = {"prompt", "style"}
    /\ dIn["prompt"] = JsArray(<<"e", "e">>)
    /\ dIn["style"] = JsNull
    /\ dOut["prompt"] = TextArray \o <<" ", "w", "i", "t", "h", " ", "2", " ", "e", "l", "e", "m", "e", "n", "t", "(", "s", ")">>
    /\ dOut["style"] = TextOptional

HostPathAbsent == ~pReq.path.has \/ Len(pReq.path.s) = 0

\* The raw URL of the request: url, or originalUrl where url is missing.
RawUrl ==
    IF pReq.url.has /\ Len(pReq.url.s) > 0 THEN pReq.url.s
    ELSE IF pReq.originalUrl.has /\ Len(pReq.originalUrl.s) > 0 THEN pReq.originalUrl.s
    ELSE <<>>

\* base is raw with its query string stripped: the part before the first "?".
IsQueryStripped(base, raw) ==
    /\ HasPrefix(raw, base)
    /\ \A k \in 1..Len(base) : base[k] /= "?"
    /\ (Len(base) < Len(raw) => raw[Len(base) + 1] = "?")

\* route is base with exactly one trailing "/" removed, unless base is "/".
IsTrimmed(route, base) ==
    IF Len(base) > 0 /\ base[Len(base)] = "/" /\ base /= <<"/">>
    THEN route \o <<"/">> = base
    ELSE route = base

\* C8: the lookup path is the host-provided path or, when that is absent or
\* "/", the raw URL with its query string stripped; then exactly one trailing
\* "/" is removed unless the path is exactly "/".  "/a/" resolves to "/a" and
\* matches its EndpointSpec, and "/" is not trimmed.
C8_PathNormalization ==
    pDone =>
        /\ \E base \in PathStrings :
               /\ IF HostPathAbsent \/ pReq.path.s = <<"/">>
                  THEN IsQueryStripped(base, RawUrl)
                  ELSE base = pReq.path.s
               /\ IsTrimmed(pRoute, base)
               /\ (base = <<"/">> => pRoute = <<"/">>)
        /\ pReq.path = Present(<<"/", "a", "/">>) => (pRoute = <<"/", "a">> /\ pFound)
        /\ pFound <=> pRoute \in {<<"/", "a">>, <<"/">>}

\* The path "/a/" has been resolved to "/a" and found among the endpoints.
C8_Witness ==
    /\ pDone
    /\ pReq.path = Present(<<"/", "a", "/">>)
    /\ pRoute = <<"/", "a">>
    /\ pFound

(***************************************************************************)
(* Statements about the gate.                                              *)
(***************************************************************************)
\* The handler of r has been called.
Called(r) == pc[r] /= "idle"

\* The route the request of r resolves to is a key of the endpoints map.
RouteConfigured(r) == ResolveRoutePath(req[r]) \in DOMAIN config.endpoints

\* The body is non-null, a non-array object, and has at least one key.
PayloadPresent(body) == body.t = "object" /\ Len(body.items) >= 1

\* The fetch of r settled with a well-formed verdict whose valid is v.
VerdictIs(r, v) ==
    /\ net[r] = "settled"
    /\ reply[r].kind = "response"
    /\ reply[r].status \in 200..299
    /\ reply[r].json = "object"
    /\ reply[r].verdict.valid = v

\* The fetch of r failed: a network error, or a status that is not 2xx.
OracleFailed(r) ==
    /\ net[r] = "settled"
    /\ \/ reply[r].kind = "rejected"
       \/ reply[r].kind = "response" /\ reply[r].status \notin 200..299

\* C1: one call of the handler invokes exactly one of next() and a terminal
\* response: never both at any time, and exactly one once the handler has
\* returned, whatever the request, the route and the oracle's outcome.
C1_ExactlyOnce ==
    \A r \in Requests :
        /\ Len(nexts[r]) + Len(sent[r]) <= 1
        /\ pc[r] = "done" => Len(nexts[r]) + Len(sent[r]) = 1
        /\ net[r] = "settled" => pc[r] = "done"
        /\ (pc[r] = "awaiting") => Len(nexts[r]) + Len(sent[r]) = 0

\* One handler has returned through next() and another through a response,
\* the latter after an invalid verdict.
C1_Witness ==
    /\ pc["r1"] = "done" /\ Len(nexts["r1"]) = 1 /\ sent["r1"] = <<>>
    /\ pc["r2"] = "done" /\ Len(sent["r2"]) = 1 /\ nexts["r2"] = <<>>
    /\ VerdictIs("r2", "false")

\* C2: a request whose normalized path is not a key of the endpoints map
\* gets next(), no oracle call and no response, whatever its body.
C2_UnconfiguredPassThrough ==
    \A r \in Requests :
        (Called(r) /\ ~RouteConfigured(r)) =>
            /\ pc[r] = "done"
            /\ Len(nexts[r]) = 1
            /\ calls[r] = <<>>
            /\ net[r] = "none"
            /\ sent[r] = <<>>

\* A request with a payload on a route that is not configured has been
\* passed to next().
C2_Witness ==
    /\ Called("r1")
    /\ ~RouteConfigured("r1")
    /\ PayloadPresent(req["r1"].body)
    /\ Len(nexts["r1"]) = 1

HasExpectedFields(r) == config.endpoints[ResolveRoutePath(req[r])].hasExpected

C4_RejectionShape ==
    \A r \in Requests :
        VerdictIs(r, "false") =>
            /\ Len(sent[r]) = 1
            /\ sent[r][1].status = 400
            /\ sent[r][1].keys = {"success", "error", "validation"}
            /\ sent[r][1].success = FALSE
            /\ sent[r][1].error = "Request validation failed"
            /\ sent[r][1].validation.has = {"errors", "warnings", "summary"}
            /\ sent[r][1].validation.errors = reply[r].verdict.errors
            /\ sent[r][1].validation.warnings = reply[r].verdict.warnings
            /\ sent[r][1].validation.summary = reply[r].verdict.summary
            /\ nexts[r] = <<>>

\* A verdict with valid=false and two errors has been answered with 400.
C4_Witness ==
    /\ VerdictIs("r1", "false")
    /\ reply["r1"].verdict.errors = <<"e2", "e1">>
    /\ Len(sent["r1"]) = 1
    /\ sent["r1"][1].status = 400

\* C5: after a verdict with valid=true the gate attaches that verdict to the
\* request as smartLayerValidation and calls next(), which finds it
\* attached; no response is produced.
C5_Acceptance ==
    \A r \in Requests :
        VerdictIs(r, "true") =>
            /\ req[r].smartLayerValidation = [has |-> TRUE, v |-> reply[r].verdict]
            /\ nexts[r] = <<[has |-> TRUE, v |-> reply[r].verdict]>>
            /\ sent[r] = <<>>

\* A verdict with valid=true has been attached and next() called.
C5_Witness ==
    /\ VerdictIs("r1", "true")
    /\ req["r1"].smartLayerValidation.has
    /\ Len(nexts["r1"]) = 1

\* C6: after a network error or a non-2xx status of the oracle call the gate
\* responds 500 with {success:false, error:"Validation service error",
\* message}, the message not empty and, for a network error that has one,
\* the error's own; next() is not called.
C6_OracleFailureMapping ==
    \A r \in Requests :
        OracleFailed(r) =>
            /\ Len(sent[r]) = 1
            /\ sent[r][1].status = 500
            /\ sent[r][1].keys = {"success", "error", "message"}
            /\ sent[r][1].success = FALSE
            /\ sent[r][1].error = "Validation service error"
            /\ sent[r][1].message /= ""
            /\ (reply[r].kind = "rejected" /\ reply[r].failure /= "") =>
                   sent[r][1].message = reply[r].failure
            /\ nexts[r] = <<>>

\* A 503 of the oracle and a network error have both been answered with 500.
C6_Witness ==
    /\ OracleFailed("r1") /\ reply["r1"].status = 503
    /\ Len(sent["r1"]) = 1 /\ sent["r1"][1].status = 500
    /\ OracleFailed("r2") /\ reply["r2"].kind = "rejected"
    /\ Len(sent["r2"]) = 1 /\ sent["r2"][1].status = 500

\* C7: every invocation of the gate ends with next() or a response: a
\* handler that awaits the oracle eventually returns, also when the oracle
\* never replies (the call then expires and the gate responds 500).
C7_BoundedOracleWait ==
    \A r \in Requests : (pc[r] = "awaiting") ~> (pc[r] = "done")

(***************************************************************************)
(* Statements about headers, response codes, failures and concurrency.     *)
(***************************************************************************)
\* The two requests agree on everything but their headers.
SameButHeaders(a, b) ==
    /\ a.path = b.path
    /\ a.url = b.url
    /\ a.originalUrl = b.originalUrl
    /\ a.method = b.method
    /\ a.body = b.body

C14_ValidationPrecedesPayment ==
    \A r \in Requests :
        (Called(r) /\ RouteConfigured(r) /\ PayloadPresent(req[r].body) /\ nexts[r] /= <<>>) =>
            VerdictIs(r, "true")

\* The fetch of r settled with a 2xx response whose body is not a verdict:
\* not JSON, JSON null, or an object whose valid is not a boolean.
MalformedReply(r) ==
    /\ net[r] = "settled"
    /\ reply[r].kind = "response"
    /\ reply[r].status \in 200..299
    /\ \/ reply[r].json /= "object"
       \/ reply[r].verdict.valid \notin {"true", "false"}

\* Processing the request of r raised an exception inside the gate: the
\* EndpointSpec of its route lacks its expected fields.
InternalException(r) ==
    /\ Called(r)
    /\ RouteConfigured(r)
    /\ PayloadPresent(req[r].body)
    /\ ~HasExpectedFields(r)

\* C15: the gate responds with 400 or 500 only; with 400 only after an
\* oracle call that returned a verdict with valid=false, with 500 only
\* after a failed oracle call (a malformed reply included) or an internal
\* exception; a handler that returned without a response called next().
C15_ResponseCodes ==
    \A r \in Requests :
        /\ \A i \in 1..Len(sent[r]) :
               /\ sent[r][i].status \in {400, 500}
               /\ sent[r][i].status = 400 => (Len(calls[r]) = 1 /\ VerdictIs(r, "false"))
               /\ sent[r][i].status = 500 =>
                      (OracleFailed(r) \/ MalformedReply(r) \/ InternalException(r))
        /\ (pc[r] = "done" /\ sent[r] = <<>>) => Len(nexts[r]) = 1

\* C16: a 2xx reply of the oracle whose body is not JSON, is JSON null, or is
\* an object without a boolean valid is answered like a failed call: 500
\* with error "Validation service error", never 400 and never next().
C16_MalformedOracleReply ==
    \A r \in Requests :
        MalformedReply(r) =>
            /\ Len(sent[r]) = 1
            /\ sent[r][1].status = 500
            /\ sent[r][1].error = "Validation service error"
            /\ nexts[r] = <<>>

\* C17: one call of the handler POSTs to the oracle at most once; after a
\* failed call or an invalid verdict the handler has returned with a
\* response and that one call is all it made.
C17_NoRetry ==
    \A r \in Requests :
        /\ Len(calls[r]) <= 1
        /\ (OracleFailed(r) \/ VerdictIs(r, "false")) =>
               /\ pc[r] = "done"
               /\ Len(sent[r]) = 1
               /\ Len(calls[r]) = 1

\* A failed call and an invalid verdict have both been answered, each
\* after a single call of the oracle.
C17_Witness ==
    /\ OracleFailed("r1") /\ pc["r1"] = "done" /\ Len(calls["r1"]) = 1
    /\ VerdictIs("r2", "false") /\ pc["r2"] = "done" /\ Len(calls["r2"]) = 1

\* An exception was raised while the request of r was processed: by an
\* EndpointSpec without its expected fields, by the oracle call, or by a
\* 2xx reply that is not JSON or is JSON null.
ExceptionRaised(r) ==
    \/ InternalException(r)
    \/ OracleFailed(r)
    \/ MalformedReply(r) /\ reply[r].json \in {"invalid", "null"}

\* The request has no path, no url and no originalUrl.
NoPathNoUrl(request) == Falsy(request.path) /\ Falsy(request.url) /\ Falsy(request.originalUrl)

\* C18: every exception raised while a request is processed is caught and
\* answered with 500 and {success:false, error:"Validation service error",
\* message}, next() not called; no handler ends by throwing or rejecting,
\* that of a request without path and URL included, which returns through
\* next() or a response like any other.
C18_ExceptionContainment ==
    \A r \in Requests :
        /\ pc[r] \in {"idle", "awaiting", "done"}
        /\ ExceptionRaised(r) =>
               /\ pc[r] = "done"
               /\ Len(sent[r]) = 1
               /\ sent[r][1].status = 500
               /\ sent[r][1].keys = {"success", "error", "message"}
               /\ sent[r][1].success = FALSE
               /\ sent[r][1].error = "Validation service error"
               /\ sent[r][1].message /= ""
               /\ nexts[r] = <<>>
        /\ (Called(r) /\ NoPathNoUrl(req[r])) =>
               (pc[r] = "done" /\ Len(nexts[r]) + Len(sent[r]) = 1)

\* An EndpointSpec without expected fields and a 2xx reply of JSON null have
\* both ended in a 500 response.
C18_Witness ==
    /\ InternalException("r1")
    /\ Len(sent["r1"]) = 1 /\ sent["r1"][1].status = 500
    /\ sent["r1"][1].message = "Cannot convert undefined or null to object"
    /\ MalformedReply("r2") /\ reply["r2"].json = "null"
    /\ Len(sent["r2"]) = 1 /\ sent["r2"][1].status = 500

\* Everything the gate holds for the request r.
OwnState(r) == <<req[r], pc[r], net[r], calls[r], reply[r], nexts[r], sent[r], log[r]>>

\* C19: with two requests in flight and replies in any order, each request
\* is sent with its own payload, accepted or rejected by the verdict of its
\* own call, and carries that verdict and no other; a step of one request
\* changes nothing of the other, and a request can take its next step
\* whatever the state of the other.
C19_RequestIndependence ==
    /\ [](\A r \in Requests :
             /\ \A i \in 1..Len(calls[r]) : calls[r][i].payload = req[r].body
             /\ req[r].smartLayerValidation.has =>
                    /\ net[r] = "settled"
                    /\ reply[r].kind = "response"
                    /\ req[r].smartLayerValidation.v = reply[r].verdict
             /\ VerdictIs(r, "true") =>
                    (nexts[r] = <<Attached(reply[r].verdict)>> /\ sent[r] = <<>>)
             /\ VerdictIs(r, "false") =>
                    /\ nexts[r] = <<>>
                    /\ Len(sent[r]) = 1
                    /\ sent[r][1].validation.errors = reply[r].verdict.errors
             /\ pc[r] = "idle" => ENABLED (\E request \in GateRequests : Receive(r, request))
             /\ (pc[r] = "awaiting" /\ net[r] = "inflight") =>
                    ENABLED (\E settled \in OracleOutcomes : OracleSettles(r, settled)))
    /\ [][\A r, q \in Requests :
             (r /= q /\ OwnState(r)' /= OwnState(r)) => OwnState(q)' = OwnState(q)]_vars

\* Two requests with different bodies: one has been accepted and carries
\* its verdict, the other has been rejected and carries none.
C19_Witness ==
    /\ VerdictIs("r1", "true") /\ VerdictIs("r2", "false")
    /\ req["r1"].body /= req["r2"].body
    /\ req["r1"].smartLayerValidation.v = reply["r1"].verdict
    /\ ~req["r2"].smartLayerValidation.has
    /\ Len(nexts["r1"]) = 1 /\ Len(sent["r2"]) = 1

\* The two requests agree on everything the host hands to the gate.
SameRequest(a, b) == SameButHeaders(a, b) /\ a.headers = b.headers

\* C20: the same request with the same oracle outcome gets, from the gate
\* with debug and from the gate without, the same oracle request, the same
\* decision and the same response; only the trace differs.
C20_DebugNonInterference ==
    \A r1, r2 \in Requests :
        (Called(r1) /\ Called(r2) /\ SameRequest(req[r1], req[r2])) =>
            /\ calls[r1] = calls[r2]
            /\ (pc[r1] = "done" /\ pc[r2] = "done" /\ reply[r1] = reply[r2]) =>
                   /\ sent[r1] = sent[r2]
                   /\ nexts[r1] = nexts[r2]

(***************************************************************************)
(* Statements about what the gate leaves as it was.                        *)
(***************************************************************************)
\* C21: once the handler has returned, the request carries a
\* smartLayerValidation iff the oracle returned a verdict with valid=true
\* for it; nothing is attached before that, nor on an unconfigured route,
\* without a payload, after a rejection or a failure; and the body the
\* request carries is the body that was sent to the oracle for it.
C21_PassThroughUntouched ==
    \A r \in Requests :
        /\ pc[r] = "done" => (req[r].smartLayerValidation.has <=> VerdictIs(r, "true"))
        /\ pc[r] /= "done" => ~req[r].smartLayerValidation.has
        /\ \A i \in 1..Len(calls[r]) : req[r].body = calls[r][i].payload

\* C22: whatever requests have been handled, accepted, rejected, failed or
\* passed through, in whatever interleaving, the endpoints map of the gate
\* and the expectedRequest of every EndpointConfig in it are what they were
\* when the gate was constructed.
C22_ConfigReadOnly ==
    /\ DOMAIN config.endpoints = DOMAIN GateEndpoints
    /\ \A route \in DOMAIN GateEndpoints :
           /\ config.endpoints[route].hasExpected = GateEndpoints[route].hasExpected
           /\ config.endpoints[route].expectedRequest = GateEndpoints[route].expectedRequest

\* One request has been accepted and another rejected on the same route,
\* and the route still holds the expectedRequest it was configured with.
C22_Witness ==
    /\ VerdictIs("r1", "true") /\ pc["r1"] = "done"
    /\ VerdictIs("r2", "false") /\ pc["r2"] = "done"
    /\ ResolveRoutePath(req["r1"]) = <<"/", "a">>
    /\ ResolveRoutePath(req["r2"]) = <<"/", "a">>
    /\ config.endpoints[<<"/", "a">>].expectedRequest["style"] = JsString(<<"b", "l", "u", "e">>)

\* C23: every body POSTed to the oracle for a request holds the rules
\* derived from the expectedRequest of the EndpointConfig at the normalized
\* path of that request, one rule per field of that expectedRequest and of
\* no other route's, and as payload the body of the request as it came.
C23_OracleRequestContent ==
    \A r \in Requests :
        \A i \in 1..Len(calls[r]) :
            /\ RouteConfigured(r)
            /\ LET matched == config.endpoints[ResolveRoutePath(req[r])]
               IN  /\ matched.hasExpected
                   /\ DOMAIN calls[r][i].rules = DOMAIN matched.expectedRequest
                   /\ calls[r][i].rules = generateRulesFromExpectedRequest(matched.expectedRequest)
            /\ calls[r][i].payload = req[r].body

\* The oracle has been called for a request to "/a" and for a request to
\* "/n", each with the rules of its own route and with its own body.
C23_Witness ==
    /\ ResolveRoutePath(req["r1"]) = <<"/", "a">>
    /\ Len(calls["r1"]) = 1
    /\ DOMAIN calls["r1"][1].rules = {"prompt"}
    /\ calls["r1"][1].rules["prompt"] =
           TextNonEmptyString \o <<" ", "(", "e", "x", "a", "m", "p", "l", "e", ":", " ", "b", "l", "u", "e", ")">>
    /\ calls["r1"][1].payload = JsObject(<<"prompt">>)
    /\ ResolveRoutePath(req["r2"]) = <<"/", "n">>
    /\ Len(calls["r2"]) = 1
    /\ DOMAIN calls["r2"][1].rules = {"amount"}
    /\ calls["r2"][1].rules["amount"] = TextOther
    /\ calls["r2"][1].payload = req["r2"].body

\* C24: when the host-provided path is exactly "/", the path used for the
\* lookup is never empty: it is "/" or the path of the raw URL with its
\* query string stripped; and a request for "/", with the raw URL at hand
\* or without it, finds the EndpointSpec configured at "/".
C24_RootPathResolution ==
    (pDone /\ pReq.path = Present(<<"/">>)) =>
        /\ pRoute /= <<>>
        /\ \/ pRoute = <<"/">>
           \/ \E base \in PathStrings : IsQueryStripped(base, RawUrl) /\ IsTrimmed(pRoute, base)
        /\ (RawUrl = <<>> \/ IsQueryStripped(<<"/">>, RawUrl)) => (pRoute = <<"/">> /\ pFound)

(***************************************************************************)
(* Statements about the header-gated variant.                              *)
(***************************************************************************)
\* The route of the request of r, as the variant resolves it, is configured.
GatedRouteConfigured(r) == GatedRoutePath(req[r]) \in DOMAIN config.endpoints

\* The EndpointConfig of that route holds an expectedRequest.
GatedHasExpectedFields(r) == config.endpoints[GatedRoutePath(req[r])].hasExpected

FourPaymentNames == {"x-payment", "X-PAYMENT", "payment-signature", "PAYMENT-SIGNATURE"}

\* The request carries one of the four headers, whatever its value.
CarriesPaymentHeader(request) == \E h \in request.headers : h.name \in FourPaymentNames

\* The request carries one of the four headers with a value that is not empty.
CarriesPaymentValue(request) ==
    \E h \in request.headers : h.name \in FourPaymentNames /\ h.value /= ""

\* C25 as stated: in the header-gated variant a request to a configured
\* route is sent to the oracle iff it carries one of x-payment, X-PAYMENT,
\* payment-signature, PAYMENT-SIGNATURE; without any of them it goes to
\* next() with no oracle call and no response.
C25_AsStated ==
    \A r \in Requests :
        (Called(r) /\ GatedRouteConfigured(r)) =>
            /\ Len(calls[r]) >= 1 <=> CarriesPaymentHeader(req[r])
            /\ ~CarriesPaymentHeader(req[r]) =>
                   (pc[r] = "done" /\ Len(nexts[r]) = 1 /\ calls[r] = <<>> /\ sent[r] = <<>>)

\* C25 as amended: on a configured route whose EndpointSpec holds its
\* expected fields the request is sent to the oracle (once) iff one of the
\* four headers is there with a non-empty value; with none of them, or only
\* empty ones, it goes to next() with no call and no response on every
\* configured route; and with such a header on a route whose EndpointSpec
\* lacks its expected fields it gets a 500 response with no oracle call.
C25_HeaderGate ==
    \A r \in Requests :
        (Called(r) /\ GatedRouteConfigured(r)) =>
            /\ GatedHasExpectedFields(r) => (Len(calls[r]) = 1 <=> CarriesPaymentValue(req[r]))
            /\ ~CarriesPaymentValue(req[r]) =>
                   (pc[r] = "done" /\ Len(nexts[r]) = 1 /\ calls[r] = <<>> /\ sent[r] = <<>>)
            /\ (~GatedHasExpectedFields(r) /\ CarriesPaymentValue(req[r])) =>
                   /\ pc[r] = "done" /\ calls[r] = <<>> /\ nexts[r] = <<>>
                   /\ Len(sent[r]) = 1 /\ sent[r][1].status = 500

\* On the same configured route a request with PAYMENT-SIGNATURE and no
\* body has been sent to the oracle, and a request with a payload and an
\* empty x-payment has been passed to next() without a call.
C25_Witness ==
    /\ GatedRoutePath(req["r1"]) = <<"/", "a">>
    /\ req["r1"].headers = {Header("PAYMENT-SIGNATURE", "sig")}
    /\ req["r1"].body = JsUndefined
    /\ Len(calls["r1"]) = 1
    /\ GatedRoutePath(req["r2"]) = <<"/", "a">>
    /\ req["r2"].headers = {Header("x-payment", "")}
    /\ req["r2"].body = JsObject(<<"prompt">>)
    /\ Len(nexts["r2"]) = 1 /\ calls["r2"] = <<>> /\ sent["r2"] = <<>>

(***************************************************************************)
(* Statements about the message of a failed oracle call.                   *)
(***************************************************************************)
\* The fetch of r settled with a response whose status is not 2xx.
NonOkReply(r) ==
    /\ net[r] = "settled"
    /\ reply[r].kind = "response"
    /\ reply[r].status \notin 200..299

\* The default message, which names the status code.
DefaultFailureMessage(status) == "Validation request failed with status " \o ToString(status)

\* The first of the three texts that is not empty.
FirstNonEmpty(x, y, z) == IF x /= "" THEN x ELSE IF y /= "" THEN y ELSE z

\* C26 as stated: for a non-2xx reply the message of the 500 response is
\* the field error of the body, else its field message, else the default
\* naming the status, when the body parses as JSON; it is the raw text,
\* else the default, when the body does not parse; it is never empty.
C26_AsStated ==
    \A r \in Requests :
        NonOkReply(r) =>
            /\ Len(sent[r]) = 1
            /\ sent[r][1].status = 500
            /\ sent[r][1].message /= ""
            /\ sent[r][1].message =
                   IF reply[r].json \in {"object", "scalar", "null"}
                   THEN FirstNonEmpty(reply[r].error, reply[r].message,
                                      DefaultFailureMessage(reply[r].status))
                   ELSE FirstNonEmpty(reply[r].text, "", DefaultFailureMessage(reply[r].status))

\* C26 as amended: the same, but a body that is JSON null counts with the
\* bodies that do not parse: its message is the raw text "null".
C26_ErrorMessageExtraction ==
    \A r \in Requests :
        NonOkReply(r) =>
            /\ Len(sent[r]) = 1
            /\ sent[r][1].status = 500
            /\ sent[r][1].message /= ""
            /\ sent[r][1].message =
                   IF reply[r].json \in {"object", "scalar"}
                   THEN FirstNonEmpty(reply[r].error, reply[r].message,
                                      DefaultFailureMessage(reply[r].status))
                   ELSE FirstNonEmpty(reply[r].text, "", DefaultFailureMessage(reply[r].status))

\* A 400 whose body holds both fields has been answered with the field
\* error, and a 503 with an empty body with the default message.
C26_Witness ==
    /\ NonOkReply("r1") /\ reply["r1"].status = 400
    /\ reply["r1"].error = "bad rules" /\ reply["r1"].message = "ignored"
    /\ Len(sent["r1"]) = 1 /\ sent["r1"][1].message = "bad rules"
    /\ NonOkReply("r2") /\ reply["r2"].status = 503 /\ reply["r2"].text = ""
    /\ Len(sent["r2"]) = 1
    /\ sent["r2"][1].message = "Validation request failed with status 503"

=============================================================================
